---- MODULE Spec2Model ----
(***************************************************************************)
(* h2kv: content-negotiated key-value storage over HTTP/2.                 *)
(* Model of NegotiatedPath / PathExtensions (content_negotiation.rs), the  *)
(* request handler (server.rs) and the LevelDB backend (storage/leveldb.rs)*)
(***************************************************************************)
EXTENDS Integers, Sequences, FiniteSets, TLC

VARIABLES db, last, nreq, tasks, chan, call, files, sync

vars == <<db, last, nreq, tasks, chan, call, files, sync>>

(***************************************************************************)
(* Bounds                                                                  *)
(***************************************************************************)
\* requests handled one after the other (Spec), requests started (SpecConc)
MaxOps == 3
MaxConcOps == 3

\* request bodies
Bodies == {"hello", "bytes"}
NoBody == ""

(***************************************************************************)
(* Paths.  A path is its file stem and the list of its extensions:         *)
(* "/a.b.txt" is [base |-> "/a", exts |-> <<"b", "htm">>].  The root path  *)
(* "/" has no file name.                                                   *)
(***************************************************************************)
None == "none"

GENERIC_EXT == "octet-stream"
META_EXT == "ext"

P(base, exts) == [base |-> base, exts |-> exts]

Root == P("/", <<>>)

RequestPaths ==
    { Root,
      P("/a", <<>>),
      P("/a", <<"htm">>),
      P("/a", <<"html">>),
      P("/a", <<GENERIC_EXT>>),
      P("/a", <<META_EXT>>),
      P("/a", <<"b", "htm">>) }

\* the extensions, in the order of String (the key order of serde_json::Map)
ExtOrder == <<"ext", "htm", "html", "octet-stream">>

Exts == { ExtOrder[i] : i \in 1..Len(ExtOrder) }

\* std::path::Path::file_name is None for "/"
HasFileName(p) == p.base # "/"

\* std::path::Path::extension
Extension(p) == IF p.exts = <<>> THEN None ELSE p.exts[Len(p.exts)]

\* std::path::Path::file_stem, as a path without its parent
FileStem(p) == [p EXCEPT !.exts = SubSeq(p.exts, 1, Len(p.exts) - 1)]

\* std::path::Path::with_extension: no-op without a file name
WithExtension(p, e) ==
    IF ~HasFileName(p) THEN p
    ELSE IF p.exts = <<>> THEN [p EXCEPT !.exts = <<e>>]
    ELSE [p EXCEPT !.exts = Append(SubSeq(p.exts, 1, Len(p.exts) - 1), e)]

RECURSIVE path_stem(_)
path_stem(p) == IF Extension(p) # None THEN path_stem(FileStem(p)) ELSE p

(***************************************************************************)
(* Header values and media types                                           *)
(***************************************************************************)
Absent == "absent"
NonAscii == "non-ascii"
Garbage == "garbage"

HtmlStr == "text/html"
FooStr == "application/x-foo; v=1"
GenericStr == "application/octet-stream"
AnyStr == "*/*"

MT(ess, params) == [ess |-> ess, params |-> params]

GENERIC_MEDIA_TYPE == MT("application/octet-stream", "")

ParseError == [ess |-> "error", params |-> ""]

\* Option::None where a media type is expected
NoMT == [ess |-> "none", params |-> ""]

\* mediatype::MediaType::parse
MediaTypeParse(s) ==
    CASE s = HtmlStr -> MT("text/html", "")
      [] s = FooStr -> MT("application/x-foo", "v=1")
      [] s = GenericStr -> GENERIC_MEDIA_TYPE
      [] s = AnyStr -> MT("*/*", "")
      [] OTHER -> ParseError

\* Display for MediaType
MediaTypeToString(mt) ==
    CASE mt = MT("text/html", "") -> HtmlStr
      [] mt = MT("application/x-foo", "v=1") -> FooStr
      [] mt = GENERIC_MEDIA_TYPE -> GenericStr
      [] OTHER -> Garbage

\* MediaType::essence
Essence(mt) == MT(mt.ess, "")

\* mime2ext::mime2ext
mime2ext(s) == IF s = HtmlStr THEN "html" ELSE None

\* HeaderValue::to_str
ToStrOk(h) == h # NonAscii

ContentTypes == {Absent, HtmlStr, FooStr, Garbage, NonAscii}
Accepts == {Absent, HtmlStr, FooStr, AnyStr, NonAscii}

(***************************************************************************)
(* Storage backend                                                         *)
(***************************************************************************)
\* serde_json::Map<String, Value>: the entries <<extension, media type string>>
\* in key order
EmptyMap == <<>>

MapHas(map, e) == \E i \in 1..Len(map) : map[i][1] = e

MapGet(map, e) ==
    IF MapHas(map, e) THEN map[CHOOSE i \in 1..Len(map) : map[i][1] = e][2] ELSE None

MapInsert(map, e, v) ==
    LET keys == SelectSeq(ExtOrder, LAMBDA x : x = e \/ MapHas(map, x))
    IN [i \in 1..Len(keys) |-> <<keys[i], IF keys[i] = e THEN v ELSE MapGet(map, keys[i])>>]

MapRemove(map, e) == SelectSeq(map, LAMBDA entry : entry[1] # e)

MapIsEmpty(map) == Len(map) = 0

\* a stored value: the bytes of a request body, or of an encoded sidecar map
BodyVal(b) == [t |-> "body", b |-> b, m |-> EmptyMap]
MapVal(m) == [t |-> "map", b |-> NoBody, m |-> m]

\* Option::None where a stored value is expected
NoVal == [t |-> "none", b |-> NoBody, m |-> EmptyMap]

\* StorageBackend::get
DbGet(d, k) == IF k \in DOMAIN d THEN d[k] ELSE NoVal

\* a write batch whose delete operations are dropped
DbWritePutOnly(d, k, v) ==
    IF v = NoVal THEN d
    ELSE [x \in DOMAIN d \cup {k} |-> IF x = k THEN v ELSE d[x]]

\* Writebatch::put / Writebatch::delete applied to the database
DbWrite(d, k, v) ==
    IF v = NoVal THEN [x \in DOMAIN d \ {k} |-> d[x]]
    ELSE [x \in DOMAIN d \cup {k} |-> IF x = k THEN v ELSE d[x]]

\* a batch of which only the first operation is written
batch_update_first_only(d, ops) ==
    IF ops = <<>> THEN d ELSE DbWrite(d, Head(ops).k, Head(ops).v)

\* DatabaseWrapper::batch_update: the write batch is applied in order
RECURSIVE batch_update(_, _)
batch_update(d, ops) ==
    IF ops = <<>> THEN d
    ELSE batch_update(DbWrite(d, Head(ops).k, Head(ops).v), Tail(ops))

\* DatabaseWrapper::batch_update: updates_tx.send(k) for every operation of the
\* batch, in order, before the batch is written
Sends(ops) == [i \in 1..Len(ops) |-> ops[i].k]

\* the channel after a batch_update call.  Without --sync-dir nothing ever
\* receives from the channel (do_read and do_write return at once), and what
\* it holds is not kept.
Push(c, ops) == IF sync.pc = "off" THEN c ELSE c \o Sends(ops)

\* the batch_update call made by a step: its operations and its result
Call(ops, result) == [ops |-> ops, result |-> result]
NoCall == Call(<<>>, "none")

\* the call a handler makes with its batch (none when it has no batch)
CallOf(ops) == IF ops = <<>> THEN NoCall ELSE Call(ops, "ok")

(***************************************************************************)
(* PathExtensions: the sidecar record {extension -> media type string}     *)
(***************************************************************************)
PathExtensions(path, map) == [path |-> path, map |-> map]

\* PathExtensions::get_for_path: absent or unparseable gives the empty map
get_for_path(d, path) ==
    LET key == WithExtension(path_stem(path), META_EXT)
        stored == DbGet(d, key)
    IN PathExtensions(key, IF stored.t = "map" THEN stored.m ELSE EmptyMap)

\* an insert that encodes the map as loaded, without the new entry
InsertForgetsEntry(extensions, negotiated) ==
    [k |-> extensions.path, v |-> MapVal(extensions.map)]

\* PathExtensions::insert: the batch operation writing the updated map
insert(extensions, negotiated) ==
    LET map == MapInsert(extensions.map, Extension(negotiated.key),
                         MediaTypeToString(negotiated.mt))
    IN [k |-> extensions.path, v |-> MapVal(map)]

\* a remove that writes the map back even when it is empty
RemoveKeepsEmptyMap(extensions, extension) ==
    [k |-> extensions.path, v |-> MapVal(MapRemove(extensions.map, extension))]

\* PathExtensions::remove: the batch operation writing or deleting the map
remove(extensions, extension) ==
    LET map == MapRemove(extensions.map, extension)
    IN IF MapIsEmpty(map) THEN [k |-> extensions.path, v |-> NoVal]
       ELSE [k |-> extensions.path, v |-> MapVal(map)]

\* PathExtensions::get_media_type
get_media_type(extensions, extension) ==
    IF ~MapHas(extensions.map, extension) THEN NoMT
    ELSE MediaTypeParse(MapGet(extensions.map, extension))

IsJson(mt) == mt.ess = "application/json"

\* PathExtensions::get_all_media_types: application/json first, stable otherwise
get_all_media_types(extensions) ==
    LET all == [i \in 1..Len(extensions.map) |-> MediaTypeParse(extensions.map[i][2])]
    IN SelectSeq(all, IsJson) \o SelectSeq(all, LAMBDA mt : ~IsJson(mt))

\* PathExtensions::get_extension: linear scan, first entry with that media type
get_extension(extensions, media_type) ==
    LET hits == SelectSeq(extensions.map,
                          LAMBDA entry : MediaTypeParse(entry[2]) = media_type)
    IN IF hits = <<>> THEN None ELSE Head(hits)[1]

(***************************************************************************)
(* Accept negotiation (headers_accept)                                     *)
(***************************************************************************)
\* Accept::from_str: the media ranges of the header
AcceptParse(s) == <<MediaTypeParse(s)>>

\* a media range matches a media type
RangeMatches(range, mt) ==
    /\ range.ess = "*/*" \/ range.ess = mt.ess
    /\ range.params = "" \/ range.params = mt.params

\* Accept::negotiate: the first available media type some range accepts
negotiate(ranges, available) ==
    LET ok == SelectSeq(available,
                  LAMBDA mt : \E i \in 1..Len(ranges) : RangeMatches(ranges[i], mt))
    IN IF ok = <<>> THEN NoMT ELSE Head(ok)

(***************************************************************************)
(* NegotiatedPath                                                          *)
(***************************************************************************)
Negotiated(key, mt) == [r |-> "ok", key |-> key, mt |-> mt]
Refused == [r |-> "none", key |-> Root, mt |-> ParseError]
Failed == [r |-> "err", key |-> Root, mt |-> ParseError]

\* NegotiatedPath::for_write
for_write(path, ct) ==
    CASE Extension(path) # None /\ ct = Absent ->
            Negotiated(path, GENERIC_MEDIA_TYPE)
      [] Extension(path) = None /\ ct # Absent ->
            IF ~ToStrOk(ct) THEN Failed
            ELSE IF MediaTypeParse(ct) = ParseError THEN Refused
            ELSE Negotiated(WithExtension(path,
                     IF mime2ext(ct) # None THEN mime2ext(ct) ELSE GENERIC_EXT),
                     MediaTypeParse(ct))
      [] Extension(path) # None /\ ct # Absent ->
            IF ~ToStrOk(ct) THEN Failed
            ELSE IF MediaTypeParse(ct) = ParseError THEN Refused
            ELSE Negotiated(path, MediaTypeParse(ct))
      [] OTHER ->
            Negotiated(WithExtension(path, GENERIC_EXT), GENERIC_MEDIA_TYPE)

\* a for_read that falls back to the sentinel extension without looking it up
for_read_unguarded(path, extensions, accept) ==
    CASE Extension(path) # None /\ Extension(path) # GENERIC_EXT ->
            IF get_media_type(extensions, Extension(path)) = NoMT THEN Refused
            ELSE Negotiated(path, get_media_type(extensions, Extension(path)))
      [] Extension(path) = None /\ accept # Absent ->
            IF ~ToStrOk(accept) THEN Failed
            ELSE LET media_type == negotiate(AcceptParse(accept),
                                             get_all_media_types(extensions))
                 IN IF media_type = NoMT THEN Refused
                    ELSE Negotiated(
                           WithExtension(path, get_extension(extensions, media_type)),
                           media_type)
      [] Extension(path) = None /\ accept = Absent /\ HasFileName(path) ->
            Negotiated(WithExtension(path, GENERIC_EXT), GENERIC_MEDIA_TYPE)
      [] OTHER -> Refused

\* NegotiatedPath::for_read
for_read(path, extensions, accept) ==
    CASE Extension(path) # None /\ Extension(path) # GENERIC_EXT ->
            IF get_media_type(extensions, Extension(path)) = NoMT THEN Refused
            ELSE Negotiated(path, get_media_type(extensions, Extension(path)))
      [] Extension(path) = None /\ accept # Absent ->
            IF ~ToStrOk(accept) THEN Failed
            ELSE LET media_type == negotiate(AcceptParse(accept),
                                             get_all_media_types(extensions))
                 IN IF media_type = NoMT THEN Refused
                    ELSE Negotiated(
                           WithExtension(path, get_extension(extensions, media_type)),
                           media_type)
      [] Extension(path) = None /\ accept = Absent
            /\ MapHas(extensions.map, GENERIC_EXT) ->
            Negotiated(WithExtension(path, GENERIC_EXT), GENERIC_MEDIA_TYPE)
      [] OTHER -> Refused

\* NegotiatedPath::content_type_header
content_type_header(negotiated) == MediaTypeToString(Essence(negotiated.mt))

\* NegotiatedPath::content_location_header: "/" joined with the file name of the
\* storage key, without the extension when it is the sentinel
content_location_header(negotiated) ==
    IF Extension(negotiated.key) = GENERIC_EXT THEN FileStem(negotiated.key)
    ELSE negotiated.key

(***************************************************************************)
(* handle_request, one request at a time (server.rs)                       *)
(***************************************************************************)
\* no content-location header
NoLocation == P("", <<>>)

Response(status, note, key, rct, rbody) ==
    [status |-> status, note |-> note, key |-> key, rct |-> rct, rbody |-> rbody,
     loc |-> NoLocation]

\* the response with a content-location header
WithLocation(resp, loc) == [resp EXCEPT !.loc = loc]

\* the handler returned Err or panicked before sending a response
NoResponse(how) == Response(how, "", Root, None, NoVal)

\* GET / HEAD arm: what is sent back
HandleGet(d, method, path, accept) ==
    LET extensions == get_for_path(d, path)
        negotiated == for_read(path, extensions, accept)
    IN CASE negotiated.r = "err" -> NoResponse("err")
         [] negotiated.r = "none" -> Response("404", "refused", Root, None, NoVal)
         [] OTHER ->
              IF DbGet(d, negotiated.key) = NoVal
              THEN Response("404", "missing", negotiated.key, None, NoVal)
              ELSE Response("200", "", negotiated.key, content_type_header(negotiated),
                            IF method = "HEAD" THEN NoVal ELSE DbGet(d, negotiated.key))

\* a PUT arm that answers 201 whether or not the key exists
HandlePutAlwaysCreated(d, path, ct, body) ==
    LET negotiated == for_write(path, ct)
        extensions == get_for_path(d, path)
    IN CASE negotiated.r = "err" -> [batch |-> <<>>, resp |-> NoResponse("err")]
         [] negotiated.r = "none" ->
              [batch |-> <<>>, resp |-> Response("415", "", Root, None, NoVal)]
         [] negotiated.r = "ok" /\ Extension(negotiated.key) = None ->
              [batch |-> <<>>, resp |-> NoResponse("panic")]
         [] OTHER ->
              [batch |-> << [k |-> negotiated.key, v |-> BodyVal(body)],
                            insert(extensions, negotiated) >>,
               resp |-> WithLocation(Response("201", "", negotiated.key, None, NoVal),
                                     content_location_header(negotiated))]

\* PUT arm: the batch written (empty when none is) and what is sent back
HandlePut(d, path, ct, body) ==
    LET negotiated == for_write(path, ct)
        key_exists == DbGet(d, negotiated.key) # NoVal
        extensions == get_for_path(d, path)
    IN CASE negotiated.r = "err" -> [batch |-> <<>>, resp |-> NoResponse("err")]
         [] negotiated.r = "none" ->
              [batch |-> <<>>, resp |-> Response("415", "", Root, None, NoVal)]
         [] negotiated.r = "ok" /\ Extension(negotiated.key) = None ->
              [batch |-> <<>>, resp |-> NoResponse("panic")]
         [] OTHER ->
              [batch |-> << [k |-> negotiated.key, v |-> BodyVal(body)],
                            insert(extensions, negotiated) >>,
               resp |-> WithLocation(Response(IF key_exists THEN "204" ELSE "201", "",
                                              negotiated.key, None, NoVal),
                                     content_location_header(negotiated))]

\* DELETE arm
HandleDelete(d, path, accept) ==
    LET extensions == get_for_path(d, path)
        negotiated == for_read(path, extensions, accept)
        ext == Extension(negotiated.key)
    IN CASE negotiated.r = "err" -> [batch |-> <<>>, resp |-> NoResponse("err")]
         [] negotiated.r = "none" ->
              [batch |-> <<>>, resp |-> Response("404", "refused", Root, None, NoVal)]
         [] negotiated.r = "ok" /\ (ext = None \/ ~MapHas(extensions.map, ext)) ->
              [batch |-> <<>>, resp |-> NoResponse("panic")]
         [] OTHER ->
              [batch |-> << [k |-> negotiated.key, v |-> NoVal],
                            remove(extensions, ext) >>,
               resp |-> Response("204", "", negotiated.key, None, NoVal)]

Request(method, path, hdr, body) ==
    [method |-> method, path |-> path, hdr |-> hdr, body |-> body]

NoRequest == Request("none", Root, Absent, NoBody)

\* the last request handled, what was sent back, and the backend call of it
\* that returned Err ("none" when all succeeded)
Last(req, resp, fault) == [req |-> req, resp |-> resp, fault |-> fault]

Put(path, ct, body) ==
    /\ nreq < MaxOps
    /\ LET h == HandlePut(db, path, ct, body)
       IN /\ db' = batch_update(db, h.batch)
          /\ chan' = Push(chan, h.batch)
          /\ call' = CallOf(h.batch)
          /\ last' = Last(Request("PUT", path, ct, body), h.resp, "none")
    /\ nreq' = nreq + 1
    /\ UNCHANGED <<tasks, files, sync>>

Get(method, path, accept) ==
    /\ nreq < MaxOps
    /\ last' = Last(Request(method, path, accept, NoBody),
                     HandleGet(db, method, path, accept), "none")
    /\ nreq' = nreq + 1
    /\ call' = NoCall
    /\ UNCHANGED <<db, tasks, chan, files, sync>>

Delete(path, accept) ==
    /\ nreq < MaxOps
    /\ LET h == HandleDelete(db, path, accept)
       IN /\ db' = batch_update(db, h.batch)
          /\ chan' = Push(chan, h.batch)
          /\ call' = CallOf(h.batch)
          /\ last' = Last(Request("DELETE", path, accept, NoBody), h.resp, "none")
    /\ nreq' = nreq + 1
    /\ UNCHANGED <<tasks, files, sync>>

\* methods other than GET, HEAD, PUT and DELETE
OtherMethods == {"POST", "PATCH"}

\* the last arm of handle_request: 501 Not Implemented
HandleOther == Response("501", "", Root, None, NoVal)

\* an arm that stores the request path for the other methods
OtherStoresPath(method, path) ==
    /\ nreq < MaxOps
    /\ Extension(path) # None
    /\ LET ops == << [k |-> path, v |-> BodyVal("bytes")] >>
       IN /\ db' = batch_update(db, ops)
          /\ chan' = Push(chan, ops)
          /\ call' = Call(ops, "ok")
    /\ last' = Last(Request(method, path, Absent, NoBody), HandleOther, "none")
    /\ nreq' = nreq + 1
    /\ UNCHANGED <<tasks, files, sync>>

Other(method, path) ==
    /\ nreq < MaxOps
    /\ last' = Last(Request(method, path, Absent, NoBody), HandleOther, "none")
    /\ nreq' = nreq + 1
    /\ call' = NoCall
    /\ UNCHANGED <<db, tasks, chan, files, sync>>

(***************************************************************************)
(* handle_request when one backend call of the request returns Err         *)
(***************************************************************************)
\* the backend call that fails: the sidecar load, db.get of the negotiated
\* key, or db.write of the batch
GetFaults == {"sidecar", "value"}
PutFaults == {"exists", "sidecar", "write"}
DeleteFaults == {"sidecar", "write"}

FaultPaths == { P("/a", <<>>), P("/a", <<"htm">>), P("/a", <<META_EXT>>) }
FaultContentTypes == {Absent, HtmlStr, Garbage}
FaultAccepts == {Absent, AnyStr}

\* PathExtensions::get_for_path when db.get returns Err: .ok() drops the error
\* and the map is the default one
get_for_path_failed(path) ==
    PathExtensions(WithExtension(path_stem(path), META_EXT), EmptyMap)

\* the sidecar a handler works with
LoadExtensions(d, path, fault) ==
    IF fault = "sidecar" THEN get_for_path_failed(path) ELSE get_for_path(d, path)

\* GET / HEAD arm with a failing backend get
HandleGetFault(d, method, path, accept, fault) ==
    LET extensions == LoadExtensions(d, path, fault)
        negotiated == for_read(path, extensions, accept)
    IN CASE negotiated.r = "err" -> NoResponse("err")
         [] negotiated.r = "none" -> Response("404", "refused", Root, None, NoVal)
         [] fault = "value" -> Response("503", "", negotiated.key, None, NoVal)
         [] OTHER -> HandleGet(d, method, path, accept)

\* PUT arm with a failing backend call: the batch handed to batch_update, its
\* result, and what is sent back
HandlePutFault(d, path, ct, body, fault) ==
    LET negotiated == for_write(path, ct)
        key_exists == DbGet(d, negotiated.key) # NoVal
        extensions == LoadExtensions(d, path, fault)
        ops == << [k |-> negotiated.key, v |-> BodyVal(body)],
                  insert(extensions, negotiated) >>
    IN CASE fault = "exists" -> [call |-> NoCall, resp |-> NoResponse("err")]
         [] fault = "write" -> [call |-> Call(ops, "err"), resp |-> NoResponse("err")]
         [] OTHER ->
              [call |-> Call(ops, "ok"),
               resp |-> WithLocation(Response(IF key_exists THEN "204" ELSE "201", "",
                                              negotiated.key, None, NoVal),
                                     content_location_header(negotiated))]

\* DELETE arm with a failing backend call
HandleDeleteFault(d, path, accept, fault) ==
    LET extensions == LoadExtensions(d, path, fault)
        negotiated == for_read(path, extensions, accept)
        ops == << [k |-> negotiated.key, v |-> NoVal],
                  remove(extensions, Extension(negotiated.key)) >>
    IN CASE negotiated.r = "err" -> [call |-> NoCall, resp |-> NoResponse("err")]
         [] negotiated.r = "none" ->
              [call |-> NoCall, resp |-> Response("404", "refused", Root, None, NoVal)]
         [] fault = "write" -> [call |-> Call(ops, "err"), resp |-> NoResponse("err")]
         [] OTHER -> [call |-> Call(ops, "ok"),
                      resp |-> Response("204", "", negotiated.key, None, NoVal)]

\* the backend after a batch_update call: db.write applies the whole batch or,
\* when it returns Err, nothing
Written(d, c) == IF c.result = "ok" THEN batch_update(d, c.ops) ELSE d

GetFault(method, path, accept, fault) ==
    /\ nreq < MaxOps
    /\ fault = "value" => for_read(path, get_for_path(db, path), accept).r = "ok"
    /\ last' = Last(Request(method, path, accept, NoBody),
                     HandleGetFault(db, method, path, accept, fault), fault)
    /\ nreq' = nreq + 1
    /\ call' = NoCall
    /\ UNCHANGED <<db, tasks, chan, files, sync>>

PutFault(path, ct, body, fault) ==
    /\ nreq < MaxOps
    /\ for_write(path, ct).r = "ok"
    /\ Extension(for_write(path, ct).key) # None
    /\ LET h == HandlePutFault(db, path, ct, body, fault)
       IN /\ db' = Written(db, h.call)
          /\ chan' = Push(chan, h.call.ops)
          /\ call' = h.call
          /\ last' = Last(Request("PUT", path, ct, body), h.resp, fault)
    /\ nreq' = nreq + 1
    /\ UNCHANGED <<tasks, files, sync>>

DeleteFault(path, accept, fault) ==
    /\ nreq < MaxOps
    /\ fault = "write" => for_read(path, get_for_path(db, path), accept).r = "ok"
    /\ LET h == HandleDeleteFault(db, path, accept, fault)
       IN /\ db' = Written(db, h.call)
          /\ chan' = Push(chan, h.call.ops)
          /\ call' = h.call
          /\ last' = Last(Request("DELETE", path, accept, NoBody), h.resp, fault)
    /\ nreq' = nreq + 1
    /\ UNCHANGED <<tasks, files, sync>>

(***************************************************************************)
(* handle_request as concurrent tasks (serve spawns one task per request): *)
(* every backend access of a handler is one atomic step.                   *)
(***************************************************************************)
Tasks == {"t1", "t2"}

ConcPaths == { P("/a", <<>>), P("/a", <<"htm">>), P("/a", <<"html">>) }
ConcContentTypes == {Absent, HtmlStr}
ConcAccepts == {Absent, HtmlStr, AnyStr}

Task(pc, req, neg, key_exists, extensions, resp) ==
    [pc |-> pc, req |-> req, neg |-> neg, key_exists |-> key_exists,
     extensions |-> extensions, resp |-> resp]

NoExtensions == PathExtensions(Root, EmptyMap)

IdleTask == [pc |-> "idle"]

Free(t) == tasks[t].pc \in {"idle", "done"}

\* PUT: for_write, the body is buffered, then db.get(&negotiated)
PutExists(t, path, ct, body) ==
    /\ Free(t)
    /\ nreq < MaxConcOps
    /\ nreq' = nreq + 1
    /\ LET req == Request("PUT", path, ct, body)
           negotiated == for_write(path, ct)
       IN tasks' = [tasks EXCEPT ![t] =
            CASE negotiated.r = "err" ->
                   Task("done", req, negotiated, FALSE, NoExtensions, NoResponse("err"))
              [] negotiated.r = "none" ->
                   Task("done", req, negotiated, FALSE, NoExtensions,
                        Response("415", "", Root, None, NoVal))
              [] OTHER ->
                   Task("put_load", req, negotiated, DbGet(db, negotiated.key) # NoVal,
                        NoExtensions, NoResponse("none"))]
    /\ call' = NoCall
    /\ UNCHANGED <<db, last, chan, files, sync>>

\* PUT: PathExtensions::get_for_path
PutLoad(t) ==
    /\ tasks[t].pc = "put_load"
    /\ tasks' = [tasks EXCEPT ![t].pc = "put_batch",
                              ![t].extensions = get_for_path(db, tasks[t].req.path)]
    /\ call' = NoCall
    /\ UNCHANGED <<db, last, nreq, chan, files, sync>>

\* PUT: db.batch_update and the response
PutBatch(t) ==
    /\ tasks[t].pc = "put_batch"
    /\ LET task == tasks[t]
       IN IF Extension(task.neg.key) = None
          THEN /\ tasks' = [tasks EXCEPT ![t].pc = "done", ![t].resp = NoResponse("panic")]
               /\ call' = NoCall
               /\ UNCHANGED <<db, chan>>
          ELSE LET ops == << [k |-> task.neg.key, v |-> BodyVal(task.req.body)],
                            insert(task.extensions, task.neg) >>
               IN /\ db' = batch_update(db, ops)
                  /\ chan' = Push(chan, ops)
                  /\ call' = Call(ops, "ok")
                  /\ tasks' = [tasks EXCEPT ![t].pc = "done",
                                  ![t].resp = WithLocation(
                                      Response(IF task.key_exists THEN "204" ELSE "201",
                                               "", task.neg.key, None, NoVal),
                                      content_location_header(task.neg))]
    /\ UNCHANGED <<last, nreq, files, sync>>

\* GET, HEAD, DELETE: PathExtensions::get_for_path, then for_read
ReadLoad(t, method, path, accept) ==
    /\ Free(t)
    /\ nreq < MaxConcOps
    /\ nreq' = nreq + 1
    /\ LET req == Request(method, path, accept, NoBody)
           extensions == get_for_path(db, path)
           negotiated == for_read(path, extensions, accept)
       IN tasks' = [tasks EXCEPT ![t] =
            CASE negotiated.r = "err" ->
                   Task("done", req, negotiated, FALSE, extensions, NoResponse("err"))
              [] negotiated.r = "none" ->
                   Task("done", req, negotiated, FALSE, extensions,
                        Response("404", "refused", Root, None, NoVal))
              [] OTHER ->
                   Task(IF method = "DELETE" THEN "del_batch" ELSE "get_fetch",
                        req, negotiated, FALSE, extensions, NoResponse("none"))]
    /\ call' = NoCall
    /\ UNCHANGED <<db, last, chan, files, sync>>

\* GET, HEAD: db.get(&negotiated) and the response
GetFetch(t) ==
    /\ tasks[t].pc = "get_fetch"
    /\ LET task == tasks[t]
           data == DbGet(db, task.neg.key)
       IN tasks' = [tasks EXCEPT ![t].pc = "done", ![t].resp =
            IF data = NoVal THEN Response("404", "missing", task.neg.key, None, NoVal)
            ELSE Response("200", "", task.neg.key, content_type_header(task.neg),
                          IF task.req.method = "HEAD" THEN NoVal ELSE data)]
    /\ call' = NoCall
    /\ UNCHANGED <<db, last, nreq, chan, files, sync>>

\* DELETE: db.batch_update and the response
DeleteBatch(t) ==
    /\ tasks[t].pc = "del_batch"
    /\ LET task == tasks[t]
           ext == Extension(task.neg.key)
       IN IF ext = None \/ ~MapHas(task.extensions.map, ext)
          THEN /\ tasks' = [tasks EXCEPT ![t].pc = "done", ![t].resp = NoResponse("panic")]
               /\ call' = NoCall
               /\ UNCHANGED <<db, chan>>
          ELSE LET ops == << [k |-> task.neg.key, v |-> NoVal],
                            remove(task.extensions, ext) >>
               IN /\ db' = batch_update(db, ops)
                  /\ chan' = Push(chan, ops)
                  /\ call' = Call(ops, "ok")
                  /\ tasks' = [tasks EXCEPT ![t].pc = "done",
                                  ![t].resp = Response("204", "", task.neg.key, None, NoVal)]
    /\ UNCHANGED <<last, nreq, files, sync>>

(***************************************************************************)
(* IgnoreFilter (ignore_filter.rs).  A glob and a path are the sequences   *)
(* of their characters; a filter string is the sequence of its words as    *)
(* extract_globs splits them.                                              *)
(***************************************************************************)
\* the characters in use, in the order of their bytes
CharOrder ==
    <<"!", "*", "-", ".", "/", "a", "b", "c", "d", "e", "g", "h", "i", "j", "l",
      "m", "n", "o", "r", "s", "t", "x">>

CharCode(c) == CHOOSE i \in 1..Len(CharOrder) : CharOrder[i] = c

\* Ord for str: a < b
RECURSIVE StrLess(_, _)
StrLess(a, b) ==
    IF b = <<>> THEN FALSE
    ELSE IF a = <<>> THEN TRUE
    ELSE IF Head(a) # Head(b) THEN CharCode(Head(a)) < CharCode(Head(b))
    ELSE StrLess(Tail(a), Tail(b))

\* str::trim_start_matches('!')
RECURSIVE TrimBang(_)
TrimBang(g) == IF g # <<>> /\ Head(g) = "!" THEN TrimBang(Tail(g)) ELSE g

\* slice::sort_by on the un-prefixed spelling: stable, equal keys keep their order
RECURSIVE SortGlobs(_)
SortGlobs(globs) ==
    IF globs = <<>> THEN <<>>
    ELSE LET rest == SortGlobs(SubSeq(globs, 1, Len(globs) - 1))
             g == globs[Len(globs)]
             before == SelectSeq(rest, LAMBDA x : ~StrLess(TrimBang(g), TrimBang(x)))
             after == SelectSeq(rest, LAMBDA x : StrLess(TrimBang(g), TrimBang(x)))
         IN before \o <<g>> \o after

\* slice::reverse
Reverse(q) == [i \in 1..Len(q) |-> q[Len(q) + 1 - i]]

AnySequence == "*"
AnyRecursiveSequence == "**"

\* glob::Pattern::new: the tokens of a glob, from character i on; "**" is a
\* token when it is a whole path component, and swallows the separator after it
PushRecursive(acc) ==
    IF Len(acc) > 1 /\ acc[Len(acc)] = AnyRecursiveSequence THEN acc
    ELSE Append(acc, AnyRecursiveSequence)

RECURSIVE Tokens(_, _, _)
Tokens(chars, i, acc) ==
    IF i > Len(chars) THEN acc
    ELSE IF chars[i] # "*" THEN Tokens(chars, i + 1, Append(acc, chars[i]))
    ELSE IF i < Len(chars) /\ chars[i + 1] = "*"
         THEN IF ~(i = 1 \/ chars[i - 1] = "/") THEN <<"error">>
              ELSE IF i + 2 <= Len(chars) /\ chars[i + 2] = "/"
                   THEN Tokens(chars, i + 3, PushRecursive(acc))
              ELSE IF i + 1 = Len(chars) THEN PushRecursive(acc)
              ELSE <<"error">>
    ELSE Tokens(chars, i + 1, Append(acc, AnySequence))

\* one pattern of the filter: the tokens of the glob and whether it is an exception
Pattern(tokens, inverted) == [tokens |-> tokens, inverted |-> inverted]

\* a try_from_str that keeps the patterns in the order of the filter string
try_from_str_unsorted(globs) ==
    [i \in 1..Len(globs) |->
        IF Head(globs[i]) = "!" THEN Pattern(Tokens(Tail(globs[i]), 1, <<>>), TRUE)
        ELSE Pattern(Tokens(globs[i], 1, <<>>), FALSE)]

\* IgnoreFilter::try_from_str: sort by the un-prefixed spelling, reverse, parse
try_from_str(globs) ==
    LET sorted == Reverse(SortGlobs(globs))
    IN [i \in 1..Len(sorted) |->
          IF Head(sorted[i]) = "!" THEN Pattern(Tokens(Tail(sorted[i]), 1, <<>>), TRUE)
          ELSE Pattern(Tokens(sorted[i], 1, <<>>), FALSE)]

\* glob::Pattern::matches_from with require_literal_separator: tokens from ti
\* on against the characters of the path from fi on
RECURSIVE MatchesFrom(_, _, _, _)
RECURSIVE MatchesSequence(_, _, _, _)
MatchesFrom(tokens, ti, file, fi) ==
    IF ti > Len(tokens) THEN fi > Len(file)
    ELSE IF tokens[ti] \in {AnySequence, AnyRecursiveSequence}
         THEN \/ MatchesFrom(tokens, ti + 1, file, fi)
              \/ MatchesSequence(tokens, ti, file, fi)
    ELSE /\ fi <= Len(file)
         /\ file[fi] = tokens[ti]
         /\ MatchesFrom(tokens, ti + 1, file, fi + 1)

\* the loop of a wildcard over the characters it may consume: "*" stops at a
\* separator, "**" ends only after a separator or at the end of the path
MatchesSequence(tokens, ti, file, fi) ==
    IF fi > Len(file) THEN MatchesFrom(tokens, ti + 1, file, fi)
    ELSE IF tokens[ti] = AnyRecursiveSequence /\ file[fi] # "/"
         THEN MatchesSequence(tokens, ti, file, fi + 1)
    ELSE IF tokens[ti] = AnySequence /\ file[fi] = "/" THEN FALSE
    ELSE \/ MatchesFrom(tokens, ti + 1, file, fi + 1)
         \/ MatchesSequence(tokens, ti, file, fi + 1)

\* glob::Pattern::matches_path_with
matches_path_with(pattern, path) == MatchesFrom(pattern.tokens, 1, path, 1)

\* IgnoreFilter::is_active
is_active(patterns) == patterns # <<>>

\* IgnoreFilter::matches: the first pattern that matches decides
matches(patterns, path) ==
    LET hits == SelectSeq(patterns, LAMBDA pat : matches_path_with(pat, path))
    IN IF ~is_active(patterns) THEN FALSE
       ELSE IF hits = <<>> THEN FALSE
       ELSE ~Head(hits).inverted

\* the words of the filter strings
GlobAll == <<"*", "*", "/", "*">>
GlobRootHtml == <<"/", "*", ".", "h", "t", "m", "l">>
GlobAssets == <<"/", "a", "s", "s", "e", "t", "s", "/", "*">>
Bang(g) == <<"!">> \o g

GlobWords == { GlobAll, GlobRootHtml, GlobAssets,
               Bang(GlobAll), Bang(GlobRootHtml), Bang(GlobAssets) }

\* the paths asked of the filter
PathIndexJs == <<"/", "i", "n", "d", "e", "x", ".", "j", "s">>
PathTargetIndexHtml == <<"/", "t", "a", "r", "g", "e", "t", "/", "i", "n", "d", "e", "x", ".", "h", "t", "m", "l">>
PathIndexHtml == <<"/", "i", "n", "d", "e", "x", ".", "h", "t", "m", "l">>
PathAssetsIndexCss == <<"/", "a", "s", "s", "e", "t", "s", "/", "i", "n", "d", "e", "x", ".", "c", "s", "s">>

FilterPaths == { PathIndexJs, PathTargetIndexHtml, PathIndexHtml, PathAssetsIndexCss }

\* the longest filter string, in words
MaxPatterns == 3

RECURSIVE SeqsUpTo(_, _)
SeqsUpTo(S, n) ==
    IF n = 0 THEN { <<>> }
    ELSE LET shorter == SeqsUpTo(S, n - 1)
         IN shorter \cup { Append(q, x) : q \in shorter, x \in S }

\* the filter strings
FilterStrings == SeqsUpTo(GlobWords, MaxPatterns)

\* the characters of a file stem and of an extension
Chars(str) ==
    CASE str = "/" -> <<"/">>
      [] str = "/a" -> <<"/", "a">>
      [] str = "b" -> <<"b">>
      [] str = "ext" -> <<"e", "x", "t">>
      [] str = "htm" -> <<"h", "t", "m">>
      [] str = "html" -> <<"h", "t", "m", "l">>
      [] str = "octet-stream" -> <<"o", "c", "t", "e", "t", "-", "s", "t", "r", "e", "a", "m">>

\* Path::to_str: the characters of a path
RECURSIVE Spell(_)
Spell(p) ==
    IF p.exts = <<>> THEN Chars(p.base)
    ELSE Spell(FileStem(p)) \o <<".">> \o Chars(Extension(p))

\* globs naming the mirror files a and a.htm
GlobFileA == <<"/", "a">>
GlobAnyHtm == <<"/", "*", ".", "h", "t", "m">>

\* the filters the sync engine is run with
IgnoreFilters == { <<GlobFileA>>, <<GlobAll, Bang(GlobAnyHtm)>> }

\* a filter under test: the words of its string, the patterns built from them,
\* the path last asked and the verdict returned
Filtering(pc, globs, patterns, path, verdict) ==
    [pc |-> pc, globs |-> globs, patterns |-> patterns, path |-> path,
     verdict |-> verdict]

\* IgnoreFilter::try_from_str on the filter string
TryFromStr ==
    /\ sync.pc = "filter_str"
    /\ sync' = [sync EXCEPT !.pc = "filter", !.patterns = try_from_str(sync.globs)]
    /\ UNCHANGED <<db, last, nreq, tasks, chan, call, files>>

\* IgnoreFilter::matches on a path
Matches(path) ==
    /\ sync.pc \in {"filter", "filter_asked"}
    /\ sync' = [sync EXCEPT !.pc = "filter_asked", !.path = path,
                            !.verdict = matches(sync.patterns, path)]
    /\ UNCHANGED <<db, last, nreq, tasks, chan, call, files>>

(***************************************************************************)
(* The sync engine (fs_sync.rs, runtime.rs) as driven by the signal loop   *)
(* of main: import at startup, export then import on SIGHUP, export on     *)
(* SIGTERM/SIGINT.  The mirror directory maps a file, named by the key it  *)
(* is imported under, to its bytes.  No ignore pattern is set.             *)
(***************************************************************************)
MaxHups == 2

SyncFiles == { P("/a", <<>>), P("/a", <<"htm">>), P("/a", <<META_EXT>>) }

\* the bytes of a file of the mirror directory at startup
FileBytes(f) == IF f.exts = <<>> THEN BodyVal("hello") ELSE BodyVal("bytes")

\* the mirror directories the server may be started on
SyncDirs ==
    { [f \in fs |-> FileBytes(f)] : fs \in { x \in SUBSET SyncFiles : x # SyncFiles } }

\* new_mime_guess::from_ext(ext).first_raw()
from_ext(e) == IF e \in {"htm", "html"} THEN HtmlStr ELSE None

\* NegotiatedPath::guess_media_type: Err leaves the media type as it is
guess_media_type(negotiated) ==
    IF from_ext(Extension(negotiated.key)) = None THEN negotiated
    ELSE [negotiated EXCEPT !.mt = MediaTypeParse(from_ext(Extension(negotiated.key)))]

\* store_each_file: the negotiated key and media type of a file
ImportNegotiated(storage_key) ==
    IF Extension(storage_key) # None
    THEN guess_media_type(for_write(storage_key, Absent))
    ELSE for_write(storage_key, Absent)

\* position of a key in the order of PathBuf (all keys share one stem)
KeyRank(k) == CHOOSE i \in 1..Len(ExtOrder) : ExtOrder[i] = Extension(k)

\* a set of keys as the sorted, duplicate-free vector
RECURSIVE SortedKeys(_)
SortedKeys(ks) ==
    IF ks = {} THEN <<>>
    ELSE LET k == CHOOSE x \in ks : \A y \in ks : KeyRank(x) <= KeyRank(y)
         IN <<k>> \o SortedKeys(ks \ {k})

\* a collect_updates that keeps only the first key drained
collect_updates_first(c) ==
    IF c = <<>> THEN <<>> ELSE SortedKeys({c[1]} \ {P(c[1].base, <<META_EXT>>)})

\* a collect_updates that neither sorts nor removes duplicates
collect_updates_unsorted(c) == SelectSeq(c, LAMBDA k : Extension(k) # META_EXT)

\* collect_updates: drain, sort, dedup, drop the sidecar keys
collect_updates(c) ==
    SortedKeys({ c[i] : i \in { j \in 1..Len(c) : Extension(c[j]) # META_EXT } })

\* write_each_key: the file a key is mirrored to
MirrorFile(k) == IF Extension(k) = GENERIC_EXT THEN FileStem(k) ELSE k

\* the signal loop: where it is, the files left to import and the one at hand
\* with its negotiated key and loaded sidecar, the keys left to export, the
\* SIGHUPs handled, whether the process is terminating, whether the startup
\* import is over, whether --sync-write is set, and the number of requests
\* that had completed when the signal being handled arrived
Syncing(pc, todo, file, keys, neg, extensions, hups, term, booted, write, seen) ==
    [pc |-> pc, todo |-> todo, file |-> file, keys |-> keys, neg |-> neg,
     extensions |-> extensions, hups |-> hups, term |-> term, booted |-> booted,
     write |-> write, seen |-> seen, ignore |-> <<>>]

\* the same, run with the patterns of an ignore filter
WithIgnore(s, patterns) == [s EXCEPT !.ignore = patterns]

\* requests are served from the end of the startup import until the process
\* exits; the tasks of open connections run on during export and import
Serving == sync.pc \notin {"off", "exited", "failed_get", "failed_write"} /\ sync.booted

\* store_each_file, one file: for_write, guess_media_type, get_for_path
ImportLoad(f) ==
    /\ sync.pc = "import"
    /\ f \in sync.todo
    /\ ~matches(sync.ignore, Spell(f))
    /\ sync' = [sync EXCEPT !.pc = "import_batch", !.todo = @ \ {f}, !.file = f,
                            !.neg = ImportNegotiated(f),
                            !.extensions = get_for_path(db, f)]
    /\ call' = NoCall
    /\ UNCHANGED <<db, last, nreq, tasks, chan, files>>

\* store_each_file, one file: the ignore filter matches its key
ImportSkip(f) ==
    /\ sync.pc = "import"
    /\ f \in sync.todo
    /\ matches(sync.ignore, Spell(f))
    /\ sync' = [sync EXCEPT !.todo = @ \ {f}]
    /\ call' = NoCall
    /\ UNCHANGED <<db, last, nreq, tasks, chan, files>>

\* store_each_file, one file: db.write of the batch returns Err, do_read and
\* main return it and the process ends
ImportFault ==
    /\ sync.pc = "import_batch"
    /\ LET ops == << [k |-> sync.neg.key, v |-> files[sync.file]],
                     insert(sync.extensions, sync.neg) >>
       IN /\ chan' = Push(chan, ops)
          /\ call' = Call(ops, "err")
    /\ sync' = [sync EXCEPT !.pc = "failed_write"]
    /\ UNCHANGED <<db, last, nreq, tasks, files>>

\* store_each_file, one file: fs::read and db.batch_update
ImportBatch ==
    /\ sync.pc = "import_batch"
    /\ LET ops == << [k |-> sync.neg.key, v |-> files[sync.file]],
                     insert(sync.extensions, sync.neg) >>
       IN /\ db' = batch_update(db, ops)
          /\ chan' = Push(chan, ops)
          /\ call' = Call(ops, "ok")
    /\ sync' = [sync EXCEPT !.pc = "import"]
    /\ UNCHANGED <<last, nreq, tasks, files>>

\* do_read: after the last file, collect_updates empties the channel
ImportDone ==
    /\ sync.pc = "import"
    /\ sync.todo = {}
    /\ sync' = [sync EXCEPT !.pc = "listen", !.booted = TRUE, !.seen = 0]
    /\ chan' = <<>>
    /\ call' = NoCall
    /\ UNCHANGED <<db, last, nreq, tasks, files>>

\* SIGHUP, or SIGTERM/SIGINT: do_write starts with collect_updates when
\* --sync-write is set, and does nothing otherwise
Signal(term) ==
    /\ sync.pc = "listen"
    /\ term \/ sync.hups < MaxHups
    /\ sync' = [sync EXCEPT !.pc = "export",
                            !.keys = IF sync.write THEN collect_updates(chan) ELSE <<>>,
                            !.hups = IF term THEN @ ELSE @ + 1, !.term = term,
                            !.seen = nreq]
    /\ chan' = IF sync.write THEN <<>> ELSE chan
    /\ call' = NoCall
    /\ UNCHANGED <<db, last, nreq, tasks, files>>

\* write_each_key, one key: the stored value is written, or the file removed
ExportKey ==
    /\ sync.pc = "export"
    /\ sync.keys # <<>>
    /\ ~matches(sync.ignore, Spell(Head(sync.keys)))
    /\ LET k == Head(sync.keys)
           f == MirrorFile(k)
       IN files' = IF DbGet(db, k) # NoVal
                   THEN [x \in DOMAIN files \cup {f} |-> IF x = f THEN DbGet(db, k) ELSE files[x]]
                   ELSE [x \in DOMAIN files \ {f} |-> files[x]]
    /\ sync' = [sync EXCEPT !.keys = Tail(@)]
    /\ call' = NoCall
    /\ UNCHANGED <<db, last, nreq, tasks, chan>>

\* write_each_key, one key: db.get returns Err, do_write and main return it
\* and the process ends
ExportFault ==
    /\ sync.pc = "export"
    /\ sync.keys # <<>>
    /\ ~matches(sync.ignore, Spell(Head(sync.keys)))
    /\ sync' = [sync EXCEPT !.pc = "failed_get"]
    /\ call' = NoCall
    /\ UNCHANGED <<db, last, nreq, tasks, chan, files>>

\* write_each_key, one key: the ignore filter matches the key
ExportSkip ==
    /\ sync.pc = "export"
    /\ sync.keys # <<>>
    /\ matches(sync.ignore, Spell(Head(sync.keys)))
    /\ sync' = [sync EXCEPT !.keys = Tail(@)]
    /\ call' = NoCall
    /\ UNCHANGED <<db, last, nreq, tasks, chan, files>>

\* a signal loop that starts the import while keys are left to export
ExportDoneEarly ==
    /\ sync.pc = "export"
    /\ sync' = IF sync.term THEN [sync EXCEPT !.pc = "exited", !.seen = 0]
               ELSE [sync EXCEPT !.pc = "import", !.todo = DOMAIN files]
    /\ call' = NoCall
    /\ UNCHANGED <<db, last, nreq, tasks, chan, files>>

\* do_write returns: the process exits, or do_read walks the directory
ExportDone ==
    /\ sync.pc = "export"
    /\ sync.keys = <<>>
    /\ sync' = IF sync.term THEN [sync EXCEPT !.pc = "exited", !.seen = 0]
               ELSE [sync EXCEPT !.pc = "import", !.todo = DOMAIN files]
    /\ call' = NoCall
    /\ UNCHANGED <<db, last, nreq, tasks, chan, files>>

Init ==
    /\ db = <<>>
    /\ last = Last(NoRequest, NoResponse("none"), "none")
    /\ nreq = 0
    /\ tasks = [t \in Tasks |-> IdleTask]
    /\ chan = <<>>
    /\ call = NoCall
    /\ files = <<>>
    /\ sync = [pc |-> "off"]

Next ==
    \/ \E path \in RequestPaths, ct \in ContentTypes, body \in Bodies : Put(path, ct, body)
    \/ \E method \in {"GET", "HEAD"}, path \in RequestPaths, accept \in Accepts :
          Get(method, path, accept)
    \/ \E path \in RequestPaths, accept \in Accepts : Delete(path, accept)

Spec == Init /\ [][Next]_vars

NextConc ==
    \/ \E t \in Tasks, path \in ConcPaths, ct \in ConcContentTypes, body \in Bodies :
          PutExists(t, path, ct, body)
    \/ \E t \in Tasks : PutLoad(t)
    \/ \E t \in Tasks : PutBatch(t)
    \/ \E t \in Tasks, method \in {"GET", "HEAD", "DELETE"}, path \in ConcPaths,
          accept \in ConcAccepts : ReadLoad(t, method, path, accept)
    \/ \E t \in Tasks : GetFetch(t)
    \/ \E t \in Tasks : DeleteBatch(t)

SpecConc == Init /\ [][NextConc]_vars

\* requests handled one at a time, each with or without a failing backend call
NextFault ==
    \/ \E path \in FaultPaths, ct \in FaultContentTypes, body \in Bodies :
          Put(path, ct, body)
    \/ \E path \in FaultPaths, accept \in FaultAccepts : Get("GET", path, accept)
    \/ \E path \in FaultPaths, accept \in FaultAccepts : Delete(path, accept)
    \/ \E method \in {"GET", "HEAD"}, path \in FaultPaths, accept \in FaultAccepts,
          fault \in GetFaults : GetFault(method, path, accept, fault)
    \/ \E path \in FaultPaths, ct \in FaultContentTypes, body \in Bodies,
          fault \in PutFaults : PutFault(path, ct, body, fault)
    \/ \E path \in FaultPaths, accept \in FaultAccepts, fault \in DeleteFaults :
          DeleteFault(path, accept, fault)
    \/ \E method \in OtherMethods, path \in FaultPaths : Other(method, path)

SpecFault == Init /\ [][NextFault]_vars

\* started with --sync-dir and --sync-write on one of the mirror directories
InitSync ==
    /\ db = <<>>
    /\ last = Last(NoRequest, NoResponse("none"), "none")
    /\ nreq = 0
    /\ tasks = [t \in Tasks |-> IdleTask]
    /\ chan = <<>>
    /\ call = NoCall
    /\ files \in SyncDirs
    /\ sync = Syncing("import", DOMAIN files, Root, <<>>, Refused, NoExtensions,
                      0, FALSE, FALSE, TRUE, 0)

SyncPutPaths == { P("/a", <<>>), P("/a", <<"htm">>), P("/a", <<META_EXT>>) }
SyncDeletePaths == { P("/a", <<>>), P("/a", <<"htm">>) }

\* the sync engine, interleaved with requests that are each handled in one step
NextSync ==
    \/ \E f \in SyncFiles : ImportLoad(f)
    \/ ImportBatch
    \/ ImportDone
    \/ \E term \in BOOLEAN : Signal(term)
    \/ ExportKey
    \/ ExportDone
    \/ Serving /\ \E path \in SyncPutPaths : Put(path, Absent, "bytes")
    \/ Serving /\ \E path \in SyncDeletePaths : Delete(path, Absent)

SpecSync == InitSync /\ [][NextSync]_vars

\* started with --sync-dir and without --sync-write
InitDirOnly ==
    /\ db = <<>>
    /\ last = Last(NoRequest, NoResponse("none"), "none")
    /\ nreq = 0
    /\ tasks = [t \in Tasks |-> IdleTask]
    /\ chan = <<>>
    /\ call = NoCall
    /\ files \in SyncDirs
    /\ sync = Syncing("import", DOMAIN files, Root, <<>>, Refused, NoExtensions,
                      0, FALSE, FALSE, FALSE, 0)

\* without --sync-write do_write exports no key
NextDirOnly ==
    \/ \E f \in SyncFiles : ImportLoad(f)
    \/ ImportBatch
    \/ ImportDone
    \/ \E term \in BOOLEAN : Signal(term)
    \/ ExportDone
    \/ Serving /\ \E path \in SyncPutPaths : Put(path, Absent, "bytes")
    \/ Serving /\ \E path \in SyncDeletePaths : Delete(path, Absent)

SpecDirOnly == InitDirOnly /\ [][NextDirOnly]_vars

\* the sync engine with failing backend calls, interleaved with PUT /a
NextSyncFault ==
    \/ \E f \in SyncFiles : ImportLoad(f)
    \/ ImportBatch
    \/ ImportFault
    \/ ImportDone
    \/ \E term \in BOOLEAN : Signal(term)
    \/ ExportKey
    \/ ExportFault
    \/ ExportDone
    \/ Serving /\ Put(P("/a", <<>>), Absent, "bytes")
    \/ Serving /\ \E fault \in PutFaults : PutFault(P("/a", <<>>), Absent, "bytes", fault)

SpecSyncFault == InitSync /\ [][NextSyncFault]_vars

\* request paths whose keys differ in their last extension, one of them
\* carrying the sentinel extension twice
ExportPaths == { P("/a", <<"htm">>), P("/a", <<GENERIC_EXT, GENERIC_EXT>>) }

\* the sync engine, interleaved with requests on these paths
NextExport ==
    \/ \E f \in SyncFiles : ImportLoad(f)
    \/ ImportBatch
    \/ ImportDone
    \/ \E term \in BOOLEAN : Signal(term)
    \/ ExportKey
    \/ ExportDone
    \/ Serving /\ \E path \in ExportPaths : Put(path, Absent, "bytes")
    \/ Serving /\ \E path \in ExportPaths : Delete(path, Absent)

SpecExport == InitSync /\ [][NextExport]_vars

\* started with --sync-dir and --sync-write and an ignore filter
InitIgnore ==
    /\ db = <<>>
    /\ last = Last(NoRequest, NoResponse("none"), "none")
    /\ nreq = 0
    /\ tasks = [t \in Tasks |-> IdleTask]
    /\ chan = <<>>
    /\ call = NoCall
    /\ files \in SyncDirs
    /\ \E globs \in IgnoreFilters :
          sync = WithIgnore(Syncing("import", DOMAIN files, Root, <<>>, Refused,
                                    NoExtensions, 0, FALSE, FALSE, TRUE, 0),
                            try_from_str(globs))

IgnorePutPaths == { P("/a", <<>>), P("/a", <<"htm">>) }
IgnoreDeletePaths == { P("/a", <<>>) }

\* the sync engine with an ignore filter, interleaved with requests
NextIgnore ==
    \/ \E f \in SyncFiles : ImportLoad(f)
    \/ \E f \in SyncFiles : ImportSkip(f)
    \/ ImportBatch
    \/ ImportDone
    \/ \E term \in BOOLEAN : Signal(term)
    \/ ExportKey
    \/ ExportSkip
    \/ ExportDone
    \/ Serving /\ \E path \in IgnorePutPaths : Put(path, Absent, "bytes")
    \/ Serving /\ \E path \in IgnoreDeletePaths : Delete(path, Absent)

SpecIgnore == InitIgnore /\ [][NextIgnore]_vars

\* a filter built from a filter string and asked about paths
InitFilter ==
    /\ db = <<>>
    /\ last = Last(NoRequest, NoResponse("none"), "none")
    /\ nreq = 0
    /\ tasks = [t \in Tasks |-> IdleTask]
    /\ chan = <<>>
    /\ call = NoCall
    /\ files = <<>>
    /\ \E globs \in FilterStrings :
          sync = Filtering("filter_str", globs, <<>>, <<>>, FALSE)

NextFilter ==
    \/ TryFromStr
    \/ \E path \in FilterPaths : Matches(path)

SpecFilter == InitFilter /\ [][NextFilter]_vars

(***************************************************************************)
(* Properties                                                              *)
(***************************************************************************)
\* the sidecar mapping stored for the stem of key k (empty when none is stored)
SidecarOf(d, k) ==
    LET s == P(k.base, <<META_EXT>>)
    IN IF s \in DOMAIN d /\ d[s].t = "map" THEN d[s].m ELSE EmptyMap

\* every stored body has its sidecar entry
NoOrphanValues(d) ==
    \A k \in DOMAIN d :
        d[k].t = "body" =>
            \E i \in 1..Len(SidecarOf(d, k)) : SidecarOf(d, k)[i][1] = k.exts[Len(k.exts)]

\* every sidecar entry has a value at stem + "." + ext
NoOrphanEntries(d) ==
    \A k \in DOMAIN d :
        (k.exts = <<META_EXT>> /\ d[k].t = "map") =>
            \A i \in 1..Len(d[k].m) : P(k.base, <<d[k].m[i][1]>>) \in DOMAIN d

\* C1: after any sequence of PUT and DELETE requests run one at a time, every
\* value stored at a key K with final extension ext has an entry keyed ext in
\* the sidecar record of stem(K).
C1_NoOrphanValues == NoOrphanValues(db)

\* C2: after any sequence of PUT and DELETE requests run one at a time, every
\* entry ext -> mt of the sidecar record of a stem has a value stored at
\* exactly stem + "." + ext.
C2_NoOrphanEntries == NoOrphanEntries(db)

BothPutsDone ==
    /\ nreq = 2
    /\ \A t \in Tasks :
          /\ tasks[t].pc = "done"
          /\ tasks[t].req.method = "PUT"
          /\ tasks[t].resp.status \in {"201", "204"}

\* C3: when two concurrent PUT requests on the same stem have both completed,
\* every stored value of the stem has its sidecar entry and every sidecar
\* entry has its value.
C3_ConcurrentPutsKeepInvariants ==
    BothPutsDone => NoOrphanValues(db) /\ NoOrphanEntries(db)

\* C4: a GET or HEAD running concurrently with PUT and DELETE requests never
\* takes the "negotiated path not found" branch: whenever its negotiation
\* succeeds, the value fetch finds a value.
C4_GetNeverMissesNegotiatedKey ==
    \A t \in Tasks :
        (tasks[t].pc = "done" /\ tasks[t].req.method \in {"GET", "HEAD"})
            => tasks[t].resp.note # "missing"

LastPutSucceeded ==
    /\ last.req.method = "PUT"
    /\ last.resp.status \in {"201", "204"}

\* the answer 200 with body V and content-type essence(ct)
IsOkWith(resp, body, ct) ==
    /\ resp.status = "200"
    /\ resp.rbody = BodyVal(body)
    /\ resp.rct = MediaTypeToString(Essence(MediaTypeParse(ct)))

\* C5: right after a successful PUT(P, V, ct), GET(P) with accept: ct answers
\* 200 with exactly the body V and content-type essence(ct).
C5_PutThenGetSameType ==
    (LastPutSucceeded /\ last.req.hdr # Absent)
        => IsOkWith(HandleGet(db, "GET", last.req.path, last.req.hdr),
                    last.req.body, last.req.hdr)

\* P + "." + ext
PlusExt(path, e) == [path EXCEPT !.exts = Append(@, e)]

\* the extension a PUT of an extension-less path is stored under
ExtOf(ct) == IF mime2ext(ct) # None THEN mime2ext(ct) ELSE GENERIC_EXT

ParseableHeader(h) == ToStrOk(h) /\ MediaTypeParse(h) # ParseError

LastPutExtensionless ==
    /\ LastPutSucceeded
    /\ last.req.path.exts = <<>>
    /\ ParseableHeader(last.req.hdr)

WellFormedAccepts == {a \in Accepts : a = Absent \/ ParseableHeader(a)}

\* the value/sidecar invariants hold and no sidecar lists the extension "ext"
Consistent(d) ==
    /\ NoOrphanValues(d)
    /\ NoOrphanEntries(d)
    /\ \A k \in DOMAIN d : \A i \in 1..Len(d[k].m) : d[k].m[i][1] # META_EXT

\* C7 (as claimed; stated for a DELETE answered 204, well-formed accept headers
\* and a database that satisfies the value/sidecar invariants before and after
\* the DELETE): right after a DELETE(P), GET(P) with any accept header answers
\* 404.
C7_DeleteThenGetNotFound ==
    [][ (/\ last'.req.method = "DELETE"
         /\ last'.resp.status = "204"
         /\ nreq' = nreq + 1
         /\ Consistent(db)
         /\ Consistent(db')) =>
           \A accept \in WellFormedAccepts :
               HandleGet(db', "GET", last'.req.path, accept).status = "404" ]_vars

\* C7 (amended): right after a DELETE(P), GET(P) answers 404 when P carries an
\* extension (whatever the headers of both requests) or when neither request
\* carries an accept header.
C7_DeleteThenGetSameRepresentation ==
    last.req.method = "DELETE" =>
        \A accept \in Accepts :
            (Extension(last.req.path) # None \/ (last.req.hdr = Absent /\ accept = Absent))
                => HandleGet(db, "GET", last.req.path, accept).status = "404"

\* a DELETE answered 204 removed one representation and another one is left
C7_Witness ==
    /\ last.req.method = "DELETE"
    /\ last.resp.status = "204"
    /\ Extension(last.req.path) = None
    /\ last.req.hdr = Absent
    /\ \E k \in DOMAIN db : db[k].t = "body"

HasEntry(d, k) ==
    \E i \in 1..Len(SidecarOf(d, k)) : SidecarOf(d, k)[i][1] = k.exts[Len(k.exts)]

\* the request that negotiates the representation stored at key k
GetOfKey(d, k) ==
    IF Extension(k) = GENERIC_EXT
    THEN HandleGet(d, "GET", FileStem(k), Absent)
    ELSE HandleGet(d, "GET", k, Absent)

\* C8: a DELETE answered 204 removes only the negotiated representation K: a
\* GET of K answers 404, and every other representation of the stem that was
\* stored with its sidecar entry is still stored with it and a GET negotiating
\* it answers 200 with the unchanged body.
C8_DeleteRemovesOnlyNegotiated ==
    [][ (last'.req.method = "DELETE" /\ last'.resp.status = "204" /\ nreq' = nreq + 1) =>
          /\ HandleGet(db', "GET", last'.resp.key, Absent).status = "404"
          /\ \A k \in DOMAIN db :
                (k # last'.resp.key /\ db[k].t = "body" /\ HasEntry(db, k)) =>
                    /\ k \in DOMAIN db'
                    /\ db'[k] = db[k]
                    /\ HasEntry(db', k)
                    /\ GetOfKey(db', k).status = "200"
                    /\ GetOfKey(db', k).rbody = db[k] ]_vars

\* C9: for every path and parseable-or-absent content-type, PUT stores the body
\* and the media type under the key of the decision table:
\* (extension, none) -> P, application/octet-stream; (no extension, ct) ->
\* P + "." + ext-of(ct), ct; (extension, ct) -> P, ct; (no extension, none) ->
\* P + ".octet-stream", application/octet-stream.
C9_WriteNegotiationTable ==
    (last.req.method = "PUT" /\ (last.req.hdr = Absent \/ ParseableHeader(last.req.hdr))) =>
        LET path == last.req.path
            ct == last.req.hdr
            K == CASE path.exts # <<>> -> path
                   [] path.exts = <<>> /\ ct # Absent -> PlusExt(path, ExtOf(ct))
                   [] OTHER -> PlusExt(path, GENERIC_EXT)
            mt == IF ct = Absent THEN GenericStr ELSE ct
        IN /\ last.resp.status \in {"201", "204"}
           /\ last.resp.key = K
           /\ DbGet(db, K).t \in {"body", "map"}
           /\ \E i \in 1..Len(SidecarOf(db, K)) :
                 SidecarOf(db, K)[i] = <<K.exts[Len(K.exts)], mt>>

\* a media type of the sidecar the accept header accepts
Acceptable(accept, map) ==
    { i \in 1..Len(map) :
        /\ ParseableHeader(accept)
        /\ RangeMatches(MediaTypeParse(accept), MediaTypeParse(map[i][2])) }

\* C10: for every path, sidecar and headers, read negotiation follows the four
\* steps: (1) non-sentinel extension: K = P, mt = sidecar[ext], refused when
\* absent; (2) no extension, accept: the sidecar extension of an acceptable
\* media type, refused when none is acceptable; (3) no extension, no accept:
\* P.octet-stream iff the sidecar has the sentinel entry; (4) refused otherwise.
C10_ReadNegotiationSteps ==
    \A path \in RequestPaths, accept \in Accepts :
        LET map == get_for_path(db, path).map
            n == for_read(path, get_for_path(db, path), accept)
            e == Extension(path)
        IN CASE e # None /\ e # GENERIC_EXT ->
                  IF \E i \in 1..Len(map) : map[i][1] = e
                  THEN \E i \in 1..Len(map) :
                          /\ map[i][1] = e
                          /\ n = Negotiated(path, MediaTypeParse(map[i][2]))
                  ELSE n.r = "none"
             [] e = None /\ accept # Absent ->
                  IF Acceptable(accept, map) = {}
                  THEN n.r = "none"
                  ELSE \E i \in Acceptable(accept, map) :
                          n = Negotiated(PlusExt(path, map[i][1]), MediaTypeParse(map[i][2]))
             [] e = None /\ accept = Absent ->
                  IF \E i \in 1..Len(map) : map[i][1] = GENERIC_EXT
                  THEN n = Negotiated(PlusExt(path, GENERIC_EXT), GENERIC_MEDIA_TYPE)
                  ELSE n.r = "none"
             [] OTHER -> n.r = "none"

\* C11: a PUT whose content-type is present but cannot be parsed (ASCII text
\* that is no media type, or a value that is not ASCII) is answered 415, makes
\* no batch_update call and leaves the backend and the channel as they were.
C11_UnparseableContentTypeRefused ==
    [][ (/\ last'.req.method = "PUT"
         /\ nreq' = nreq + 1
         /\ last'.req.hdr \in {Garbage, NonAscii}) =>
           /\ last'.resp.status = "415"
           /\ call' = NoCall
           /\ db' = db
           /\ chan' = chan ]_vars

\* C12: a GET, HEAD or DELETE of an extension-less path whose accept header
\* cannot be parsed is answered 404 and leaves the backend as it was.
C12_UnparseableAcceptIsMiss ==
    [][ (/\ last'.req.method \in {"GET", "HEAD", "DELETE"}
         /\ nreq' = nreq + 1
         /\ Extension(last'.req.path) = None
         /\ ~ParseableHeader(last'.req.hdr)
         /\ last'.req.hdr # Absent) =>
           /\ last'.resp.status = "404"
           /\ db' = db ]_vars

\* the content-location of a reply to a PUT stored at key k
LocationOf(k) == IF Extension(k) = GENERIC_EXT THEN P(k.base, <<>>) ELSE k

\* C13: for requests run one at a time, a successful PUT is answered 201
\* exactly when the negotiated key held no value right before the request and
\* 204 exactly when it did, and both replies carry the content-location of
\* the key.
C13_CreatedIffKeyAbsent ==
    [][ (/\ last'.req.method = "PUT"
         /\ nreq' = nreq + 1
         /\ last'.resp.status \notin {"415", "err", "panic"}) =>
           /\ last'.resp.status = "201" <=> last'.resp.key \notin DOMAIN db
           /\ last'.resp.status = "204" <=> last'.resp.key \in DOMAIN db
           /\ last'.resp.key \in DOMAIN db'
           /\ last'.resp.loc = LocationOf(last'.resp.key) ]_vars

\* a PUT replaced the value stored under the sentinel extension and was
\* answered 204 with the content-location of the stem
C13_Witness ==
    /\ last.req.method = "PUT"
    /\ last.resp.status = "204"
    /\ Extension(last.resp.key) = GENERIC_EXT
    /\ last.resp.loc = P("/a", <<>>)
    /\ db[last.resp.key] = BodyVal(last.req.body)

\* the operations of a batch that no later operation on the same key overrides
Effective(ops) ==
    { i \in 1..Len(ops) : \A j \in (i + 1)..Len(ops) : ops[j].k # ops[i].k }

\* database e is database d with every operation of the batch applied
AllApplied(d, e, ops) ==
    /\ \A i \in Effective(ops) : DbGet(e, ops[i].k) = ops[i].v
    /\ \A k \in (DOMAIN d \cup DOMAIN e) :
          (\A i \in 1..Len(ops) : ops[i].k # k) => DbGet(e, k) = DbGet(d, k)

C16_GetErrorIs503 ==
    (last.req.method \in {"GET", "HEAD"} /\ last.fault \in GetFaults)
        => last.resp.status = "503"

\* the keys pushed onto the channel by the step
Pushed(c, d) == SubSeq(d, Len(c) + 1, Len(d))

\* C15: for every batch_update call, each key put or deleted by the batch is
\* pushed onto the mutation channel exactly once by that call.
C15_EachKeyPushedOnce ==
    [][ call'.result # "none" =>
          /\ Len(chan') >= Len(chan)
          /\ SubSeq(chan', 1, Len(chan)) = chan
          /\ \A i \in 1..Len(call'.ops) :
                Cardinality({ j \in 1..Len(Pushed(chan, chan')) :
                                 Pushed(chan, chan')[j] = call'.ops[i].k }) = 1 ]_vars

\* the sidecar keys: stem + ".ext"
IsSidecarKey(k) == k.exts = <<META_EXT>>

\* no sidecar record is an empty mapping
NoEmptySidecar(d) ==
    \A k \in DOMAIN d : IsSidecarKey(k) => (d[k].t = "map" /\ d[k].m # EmptyMap)

\* C17: under any interleaving of PUT, DELETE and import, no sidecar record
\* is stored as an empty mapping, every sidecar written by a batch has at
\* least one entry, and a DELETE that removes the last entry of a sidecar
\* deletes the sidecar key.
C17_SidecarNeverEmpty ==
    /\ []NoEmptySidecar(db)
    /\ [][ /\ \A i \in Effective(call'.ops) :
                (IsSidecarKey(call'.ops[i].k) /\ call'.ops[i].v # NoVal)
                    => (call'.ops[i].v.t = "map" /\ call'.ops[i].v.m # EmptyMap)
           /\ (/\ last'.req.method = "DELETE"
               /\ last'.resp.status = "204"
               /\ nreq' = nreq + 1
               /\ Len(SidecarOf(db, last'.resp.key)) = 1)
                  => P(last'.resp.key.base, <<META_EXT>>) \notin DOMAIN db' ]_vars

\* a DELETE removed the last entry of a sidecar that import had written
C17_Witness ==
    /\ last.req.method = "DELETE"
    /\ last.resp.status = "204"
    /\ nreq = 1
    /\ sync.booted
    /\ P(last.resp.key.base, <<META_EXT>>) \notin DOMAIN db
    /\ call.result = "ok"

\* C18: every storage key produced by negotiation or written to the backend
\* carries an extension, for every request path, so that no extension unwrap
\* of a handler fails.
C18_KeysCarryExtension ==
    /\ last.resp.status # "panic"
    /\ \A k \in DOMAIN db : Extension(k) # None
    /\ \A i \in 1..Len(call.ops) : Extension(call.ops[i].k) # None

\* C19: the key space stays partitioned: a successful PUT stores its body,
\* unchanged, under a key whose extension is not "ext", keys ending in ".ext"
\* hold only sidecar records, and no GET returns the bytes of a sidecar record.
C19_KeySpacePartitioned ==
    /\ LastPutSucceeded =>
          /\ Extension(last.resp.key) # META_EXT
          /\ DbGet(db, last.resp.key) = BodyVal(last.req.body)
    /\ \A k \in DOMAIN db : (Extension(k) = META_EXT) <=> (db[k].t = "map")
    /\ \A path \in RequestPaths, accept \in Accepts :
          HandleGet(db, "GET", path, accept).rbody.t # "map"

\* the sidecar records of a database
Sidecars(d) == [k \in { x \in DOMAIN d : IsSidecarKey(x) } |-> d[k]]

\* C20 (as claimed): every step of import and of export leaves every sidecar
\* record of the backend as it was.
C20_SyncNeverEditsSidecars ==
    [][ sync' # sync => Sidecars(db') = Sidecars(db) ]_vars

\* C20 (amended): export never writes to the backend; import writes, for each
\* file, only the key of the file and the sidecar of its stem, in one batch,
\* and the sidecar it writes lists the extension of the key.
C20_ExportReadsImportWritesSidecar ==
    [][ sync' # sync =>
          IF sync.pc = "import_batch"
          THEN /\ call'.result = "ok"
               /\ \A k \in (DOMAIN db \cup DOMAIN db') :
                     k \notin {sync.neg.key, sync.extensions.path}
                         => DbGet(db', k) = DbGet(db, k)
               /\ MapHas(SidecarOf(db', sync.neg.key), Extension(sync.neg.key))
               /\ AllApplied(db, db', call'.ops)
          ELSE /\ db' = db
               /\ call' = NoCall ]_vars

\* a SIGHUP was handled: export wrote the mirror directory, import ran again,
\* and the backend holds a sidecar next to the values
C20_Witness ==
    /\ sync.pc = "listen"
    /\ sync.hups = 1
    /\ nreq > 0
    /\ files # <<>>
    /\ \E k \in DOMAIN db : IsSidecarKey(k)
    /\ \E k \in DOMAIN db : db[k] = BodyVal("hello")

\* C21: started with --sync-dir D, after a PUT has completed and a SIGHUP is
\* then handled, D holds the mirror file of the key of the PUT with the body
\* of the PUT.
C21_PutMirroredOnSighup ==
    [][ (/\ sync.pc = "export"
         /\ sync'.pc = "import"
         /\ LastPutSucceeded
         /\ nreq = sync.seen)
            => /\ MirrorFile(last.resp.key) \in DOMAIN files
               /\ files[MirrorFile(last.resp.key)] = BodyVal(last.req.body) ]_vars

\* C22: import after export is idempotent on the backend: when the import
\* that follows an export stores a file that mirrors the stored value of its
\* key, every stored key, its body and the media type recorded for its
\* extension in the sidecar stay as they were.
C22_ImportAfterExportIdempotent ==
    [][ (/\ sync.pc = "import_batch"
         /\ sync'.pc = "import"
         /\ sync.hups > 0
         /\ MirrorFile(sync.neg.key) = sync.file
         /\ DbGet(db, sync.neg.key) = files[sync.file]
         /\ sync.extensions = get_for_path(db, sync.file))
            => db' = db ]_vars

\* the sync engine is exporting / importing
Exporting == sync.pc = "export"
Importing == sync.pc \in {"import", "import_batch"}

\* C23: on every SIGHUP the export finishes before the import starts, import
\* and export never run at the same time, and after the import the loop goes
\* back to accepting requests.
C23_ExportThenImportSerial ==
    /\ [](/\ Importing => sync.keys = <<>>
          /\ Exporting => sync.todo = {})
    /\ [][ /\ (Exporting /\ Importing') => (sync.keys = <<>> /\ ~sync.term)
           /\ (Importing /\ ~Importing') =>
                  (sync.todo = {} /\ sync'.pc = "listen" /\ Serving')
           /\ Exporting' => (Exporting \/ sync.pc = "listen")
           /\ (Importing' /\ ~Importing) => Exporting ]_vars

\* the import of the second SIGHUP is storing a file after the export ran
C23_Witness ==
    /\ sync.pc = "import_batch"
    /\ sync.hups = 2
    /\ sync.write
    /\ nreq > 0
    /\ sync.file \in DOMAIN files

\* the elements of a sequence
Range(q) == { q[i] : i \in 1..Len(q) }

\* SIGTERM or SIGINT is taken with --sync-write set
TermSignal == sync.pc = "listen" /\ sync'.pc = "export" /\ sync'.term /\ sync.write

\* C24 (as claimed): every key pending on the mutation channel when SIGTERM
\* or SIGINT is handled is exported by the final export.
C24_EveryPendingKeyExported ==
    [][ TermSignal => Range(chan) \subseteq Range(sync'.keys) ]_vars

\* C24 (amended): the process exits only after the final export: every key
\* pending on the channel when SIGTERM or SIGINT is handled, other than the
\* keys with the sidecar extension, is exported, each export step writes the
\* stored value to the mirror file or removes the file of a key that is not
\* stored, and the exit follows the last of them.
C24_FinalExportBeforeExit ==
    [][ /\ TermSignal =>
              /\ Range(sync'.keys) = { k \in Range(chan) : Extension(k) # META_EXT }
              /\ chan' = <<>>
        /\ (Exporting /\ files' # files) => sync.keys # <<>>
        /\ (Exporting /\ Exporting' /\ sync' # sync) =>
              /\ sync.keys # <<>>
              /\ sync'.keys = Tail(sync.keys)
              /\ LET k == Head(sync.keys)
                     f == IF Extension(k) = GENERIC_EXT THEN FileStem(k) ELSE k
                 IN IF k \in DOMAIN db
                    THEN f \in DOMAIN files' /\ files'[f] = db[k]
                    ELSE f \notin DOMAIN files'
        /\ sync'.pc = "exited" =>
              (sync.pc = "exited" \/ (Exporting /\ sync.term /\ sync.keys = <<>>)) ]_vars

\* the process has exited on SIGTERM or SIGINT and the final export has
\* written the body of PUT /a to the mirror file a
C24_Witness ==
    /\ sync.pc = "exited"
    /\ sync.write
    /\ sync.hups = 0
    /\ nreq > 0
    /\ P("/a", <<>>) \in DOMAIN files
    /\ files[P("/a", <<>>)] = BodyVal("bytes")
    /\ DbGet(db, P("/a", <<GENERIC_EXT>>)) = BodyVal("bytes")

\* the filter has answered about a path
Asked == sync.pc = "filter_asked"

\* str::strip_prefix('!'), or the glob as it is
Unprefixed(g) == IF Head(g) = "!" THEN Tail(g) ELSE g

\* the words of a filter string whose glob matches the path
Matching(globs, path) ==
    { i \in 1..Len(globs) :
        MatchesFrom(Tokens(Unprefixed(globs[i]), 1, <<>>), 1, path, 1) }

\* the matching words that come first in reverse lexicographic order of the
\* un-prefixed spelling
Foremost(globs, path) ==
    { i \in Matching(globs, path) :
        \A j \in Matching(globs, path) : ~StrLess(TrimBang(globs[i]), TrimBang(globs[j])) }

\* the filter string of scenario S5
FilterS5 == <<GlobAll, Bang(GlobRootHtml), Bang(GlobAssets)>>

\* C25: matches returns the verdict of the first pattern that matches, in
\* reverse lexicographic order of the un-prefixed spelling: true for a plain
\* pattern, false for an exception, false when none matches or the filter is
\* empty; with **/* !/*.html !/assets/* the paths /index.js and
\* /target/index.html are ignored, /index.html and /assets/index.css are kept.
C25_FirstMatchInReverseOrder ==
    Asked =>
      /\ Matching(sync.globs, sync.path) = {} => sync.verdict = FALSE
      /\ (\A i \in Foremost(sync.globs, sync.path) : Head(sync.globs[i]) # "!")
            /\ Matching(sync.globs, sync.path) # {} => sync.verdict = TRUE
      /\ (\A i \in Foremost(sync.globs, sync.path) : Head(sync.globs[i]) = "!")
            => sync.verdict = FALSE
      /\ sync.globs = FilterS5 =>
            sync.verdict = (sync.path \in {PathIndexJs, PathTargetIndexHtml})

\* the filter of scenario S5 has kept /index.html
C25_Witness ==
    /\ Asked
    /\ sync.globs = FilterS5
    /\ sync.path = PathIndexHtml
    /\ sync.verdict = FALSE

\* two filter strings hold the same words, in any order
SameWords(f, g) ==
    /\ Len(f) = Len(g)
    /\ \A w \in GlobWords :
          Cardinality({ i \in 1..Len(f) : f[i] = w })
              = Cardinality({ i \in 1..Len(g) : g[i] = w })

\* C26: matches(F, p) does not depend on the order of the patterns in F, in
\* particular not on the order of a plain pattern and its exception.
C26_OrderIndependent ==
    Asked =>
      \A g \in FilterStrings :
          SameWords(g, sync.globs) => matches(try_from_str(g), sync.path) = sync.verdict

\* the mirror files that the step wrote, rewrote or removed
Touched(f, g) ==
    { x \in DOMAIN f \cup DOMAIN g :
        x \notin DOMAIN f \/ x \notin DOMAIN g \/ f[x] # g[x] }

\* C27: the ignore filter gates both directions for the same file: when the
\* filter matches "/" + p, import does not store the file p, and export
\* neither writes nor removes the mirror file p, also when p is the file of
\* a key whose sentinel suffix is stripped.
C27_FilterGatesBothDirections ==
    [][ /\ (sync.pc = "import_batch" /\ sync'.pc = "import")
              => ~matches(sync.ignore, Spell(sync.file))
        /\ \A f \in Touched(files, files') : ~matches(sync.ignore, Spell(f)) ]_vars

\* the media types of a list that are not application/json
NonJson(list) == SelectSeq(list, LAMBDA mt : ~IsJson(mt))

\* application/json comes before every other media type of the list
JsonFirst(list) ==
    \A i, j \in 1..Len(list) : (IsJson(list[j]) /\ ~IsJson(list[i])) => j < i

\* C28: the media-type list used for accept negotiation is application/json
\* first, then the other media types in the order their representations were
\* inserted by PUT, read back from the stored sidecar: a PUT that inserts a
\* new representation appends its media type to the list of the others.
C28_ListInInsertionOrder ==
    [][ LET before == get_for_path(db, last'.req.path)
            after == get_for_path(db', last'.req.path)
            ext == Extension(last'.resp.key)
        IN (/\ last'.req.method = "PUT"
            /\ last'.resp.status = "201"
            /\ nreq' = nreq + 1
            /\ ~MapHas(before.map, ext))
              => /\ JsonFirst(get_all_media_types(after))
                 /\ NonJson(get_all_media_types(after))
                      = NonJson(get_all_media_types(before))
                          \o NonJson(<<get_media_type(after, ext)>>) ]_vars

\* the step handled a request
Handled == nreq' = nreq + 1

\* the request of the step was a PUT answered 201 or 204, or a DELETE
\* answered 204
Mutating(l) ==
    \/ l.req.method = "PUT" /\ l.resp.status \in {"201", "204"}
    \/ l.req.method = "DELETE" /\ l.resp.status = "204"

\* every other method is answered 501
OtherIs501(l) ==
    l.req.method \notin {"GET", "HEAD", "PUT", "DELETE"} => l.resp.status = "501"

Aborted == sync.pc \in {"failed_get", "failed_write"}

\* C30: once the server is running, the only failure that ends the process
\* is a backend write failure: the process never ends on another error, and
\* after a request that failed it is still serving unless a signal or a
\* backend write failure of the sync engine has ended it since.
C30_OnlyWriteFailureAborts ==
    /\ Aborted => sync.pc = "failed_write"
    /\ (sync.booted /\ last.fault # "none") =>
          (Serving \/ sync.pc \in {"exited", "failed_write"})

\* the do_write of a signal drains the channel with collect_updates
Drains == sync.pc = "listen" /\ sync'.pc = "export" /\ sync.write

\* C31: collect_updates empties the mutation channel without blocking and
\* returns the drained keys sorted, without duplicates and without any key
\* whose extension is the sidecar extension ext; a second call with no
\* mutation in between returns an empty list.
C31_CollectUpdatesDrains ==
    /\ [](sync.pc = "listen" => ENABLED Signal(TRUE))
    /\ [][ Drains =>
              /\ Range(sync'.keys) = { k \in Range(chan) : Extension(k) # META_EXT }
              /\ \A i, j \in 1..Len(sync'.keys) :
                    i < j => KeyRank(sync'.keys[i]) < KeyRank(sync'.keys[j])
              /\ chan' = <<>>
              /\ collect_updates(chan') = <<>> ]_vars

\* three requests had pushed their keys when the signal was taken, and two
\* keys are left of them to export
C31_Witness ==
    /\ sync.pc = "export"
    /\ sync.write
    /\ sync.seen = 3
    /\ Len(sync.keys) = 2
    /\ chan = <<>>

\* a key with a trailing sentinel suffix stripped
Stripped(k) == IF Extension(k) = GENERIC_EXT THEN FileStem(k) ELSE k

\* C32: for every collected key not matched by the ignore filter, export
\* makes the mirror file of the key (its trailing sentinel suffix stripped)
\* equal to the stored value, or removes the file when the key is not stored,
\* and export never creates a mirror file whose name ends in the sentinel
\* suffix.
C32_ExportMirrorsKey ==
    [][ (Exporting /\ Exporting' /\ sync' # sync) =>
          /\ LET k == Head(sync.keys)
                 f == Stripped(k)
             IN IF k \in DOMAIN db
                THEN f \in DOMAIN files' /\ files'[f] = db[k]
                ELSE f \notin DOMAIN files'
          /\ \A f \in DOMAIN files' : Extension(f) # GENERIC_EXT ]_vars

\* the key an imported file is stored under: the path itself when it has an
\* extension, path + ".octet-stream" otherwise
KeyOfFile(f) == IF f.exts = <<>> THEN PlusExt(f, GENERIC_EXT) ELSE f

\* the media type recorded for an imported file
TypeOfFile(f) ==
    IF f.exts = <<>> THEN GenericStr
    ELSE IF f.exts[Len(f.exts)] \in {"htm", "html"} THEN HtmlStr
    ELSE GenericStr

\* database d holds file f of the mirror directory with its sidecar entry
Imported(d, f, bytes) ==
    /\ DbGet(d, KeyOfFile(f)) = bytes
    /\ MapGet(SidecarOf(d, KeyOfFile(f)), Extension(KeyOfFile(f))) = TypeOfFile(f)

\* C33: after an import, for every file of the sync directory that is not
\* matched by the ignore filter, the backend holds the bytes of the file at
\* the key negotiated for it and the sidecar of the stem has an entry for the
\* extension of the key with the media type guessed from the file name, or
\* application/octet-stream without extension or guess; both are written in
\* one batch.
C33_ImportStoresEveryFile ==
    /\ [][ (sync.pc = "import_batch" /\ sync'.pc = "import") =>
              /\ Imported(db', sync.file, files[sync.file])
              /\ call'.result = "ok"
              /\ { call'.ops[i].k : i \in 1..Len(call'.ops) }
                    = { KeyOfFile(sync.file), P(sync.file.base, <<META_EXT>>) } ]_vars
    /\ [][ (sync.pc = "import" /\ sync'.pc = "listen" /\ ~sync.booted) =>
              \A f \in DOMAIN files :
                  ~matches(sync.ignore, Spell(f)) => Imported(db', f, files[f]) ]_vars

\* a PUT and a DELETE, each run by one of the two tasks, have both completed
PutAndDeleteDone ==
    \E t, u \in Tasks :
        /\ tasks[t].pc = "done"
        /\ tasks[t].req.method = "PUT"
        /\ tasks[t].resp.status \in {"201", "204"}
        /\ tasks[u].pc = "done"
        /\ tasks[u].req.method = "DELETE"
        /\ tasks[u].resp.status = "204"

\* C34: under every interleaving of concurrent PUT and DELETE requests on
\* representations of one stem, once all of them have completed every
\* sidecar entry of the stem has a stored value and every stored value of the
\* stem has a sidecar entry.
C34_ConcurrentPutDeleteKeepInvariants ==
    PutAndDeleteDone => NoOrphanValues(db) /\ NoOrphanEntries(db)

\* the import of a SIGHUP finishes
SighupImportDone == sync.pc = "import" /\ sync'.pc = "listen" /\ sync.booted

\* C35: a PUT acknowledged by a request task while the export-then-import of
\* a SIGHUP is in progress is not reverted by that import: when the import
\* finishes, the backend holds the body of the PUT at its key (stated for the
\* keys that are not sidecar keys).
C35_ImportKeepsConcurrentPut ==
    [][ (/\ SighupImportDone
         /\ LastPutSucceeded
         /\ nreq > sync.seen
         /\ Extension(last.resp.key) # META_EXT) =>
            DbGet(db, last.resp.key) = BodyVal(last.req.body) ]_vars

\* the final export returns and the process exits, no request having been
\* handled since SIGTERM or SIGINT was taken
ExitsQuiet == Exporting /\ sync'.pc = "exited" /\ nreq = sync.seen

\* C36: with --sync-write and no filter match, under every interleaving of
\* requests with SIGHUP exports and imports, a PUT or DELETE acknowledged
\* before the final export starts is reflected in the mirror after shutdown:
\* the file of the key holds the body of the PUT, or is gone after the DELETE
\* (stated for the last request handled and keys that are not sidecar keys).
C36_AcknowledgedWritesReachMirror ==
    [][ (ExitsQuiet /\ Mutating(last) /\ Extension(last.resp.key) # META_EXT) =>
          IF last.req.method = "PUT"
          THEN /\ Stripped(last.resp.key) \in DOMAIN files'
               /\ files'[Stripped(last.resp.key)] = BodyVal(last.req.body)
          ELSE Stripped(last.resp.key) \notin DOMAIN files' ]_vars

\* C37: a key is pushed onto the mutation channel only by a batch_update
\* that succeeds: when the write fails and batch_update returns an error, the
\* channel holds what it held before the call.
C37_FailedBatchPushesNothing ==
    [][ call'.result = "err" => chan' = chan ]_vars

\* the step handled a PUT that was answered 201 or 204
PutAcknowledged ==
    Handled /\ last'.req.method = "PUT" /\ last'.resp.status \in {"201", "204"}

\* C38: a successful PUT changes only the value at K and the sidecar entry
\* for the extension of K: every other entry of the sidecar of the stem and
\* every other stored value is the same before and after, also when loading
\* the sidecar returns a backend error.
C38_PutFrame ==
    [][ PutAcknowledged =>
          LET K == last'.resp.key
              sidecar == P(K.base, <<META_EXT>>)
          IN /\ \A k \in (DOMAIN db \cup DOMAIN db') \ {K, sidecar} :
                    DbGet(db', k) = DbGet(db, k)
             /\ \A e \in Exts \ {Extension(K)} :
                    MapGet(SidecarOf(db', K), e) = MapGet(SidecarOf(db, K), e) ]_vars

\* C39: read negotiation and DELETE never panic: for every loaded sidecar
\* mapping and every request, whenever for_read returns a negotiated path
\* its extension is a key of that mapping, so the unwrap on get_extension in
\* for_read and the unwrap in PathExtensions::remove always succeed.
C39_ReadAndDeleteNeverPanic ==
    /\ last.req.method \in {"GET", "HEAD", "DELETE"} => last.resp.status # "panic"
    /\ \A path \in RequestPaths, accept \in Accepts :
          LET extensions == get_for_path(db, path)
              negotiated == for_read(path, extensions, accept)
          IN negotiated.r = "ok" =>
                /\ Extension(negotiated.key) # None
                /\ MapHas(extensions.map, Extension(negotiated.key))
                /\ HandleDelete(db, path, accept).resp.status = "204"

\* a DELETE negotiated by its accept header removed one of two
\* representations
C39_Witness ==
    /\ last.req.method = "DELETE"
    /\ last.resp.status = "204"
    /\ Extension(last.req.path) = None
    /\ last.req.hdr # Absent
    /\ \E k \in DOMAIN db : db[k].t = "body"

\* a step of the import
ImportStep == Importing /\ sync' # sync

\* C40: import never deletes from the backend: a key that has no mirror
\* file in the sync directory is still stored with its value and its sidecar
\* entry after every step of an import, at startup and on SIGHUP.
C40_ImportNeverDeletes ==
    [][ ImportStep =>
          \A k \in DOMAIN db :
              (db[k].t = "body" /\ Stripped(k) \notin DOMAIN files) =>
                  /\ k \in DOMAIN db'
                  /\ db'[k] = db[k]
                  /\ HasEntry(db, k) => HasEntry(db', k) ]_vars

====
